---------------------------- MODULE Spec2Model ----------------------------
(***************************************************************************)
(* Model of docker-builder: the command execution subsystem                *)
(* (src/shared/run_command.py), the logger (src/shared/logger.py) and the  *)
(* install, uninstall and restart flows built on them.                     *)
(*                                                                         *)
(* Specification Spec       : one invocation of run_command, direct-pipe   *)
(*                            mode or pseudo-terminal mode, together with  *)
(*                            the process group it spawns.                 *)
(* Specification SpecPipe   : one invocation of run_piped_commands with    *)
(*                            the stages it spawns and their pipes.        *)
(* Specification SpecInput  : one invocation of run_command_with_input.    *)
(* Specification SpecBrew   : one invocation of _install_with_homebrew of  *)
(*                            MacDockerInstaller, with its worker thread.  *)
(* Specification SpecScript : one run of the entry script                  *)
(*                            uninstall_docker.py.                         *)
(* Specification SpecInstall: one call of install_docker_full, of the      *)
(*                            installer classes or of install-docker.py.   *)
(* Specification SpecLogger : the module src/shared/logger.py from its     *)
(*                            import on, with later get_logger calls.      *)
(* Specification SpecUninstall: one call of uninstall_docker_full of       *)
(*                            LinuxDockerUninstaller.                      *)
(* Specification SpecRestart: one call of restart_docker of                *)
(*                            LinuxDockerStarter.                          *)
(* Specification SpecEngine : one call of install_docker_engine of         *)
(*                            MacDockerInstaller, with manual fallback.    *)
(*                                                                         *)
(* Time is counted in polls of read_timeout = 100 ms.  A timeout of        *)
(* NoTimeout stands for timeout=None.  The verbose echo (info/print of the *)
(* captured text) changes no state the model tracks and is left out; the   *)
(* warning of the pseudo-terminal fallback and every error() call are      *)
(* recorded in log.                                                        *)
(***************************************************************************)
EXTENDS Integers, Sequences, FiniteSets, TLC

(* ---------------------------- bounds ----------------------------------- *)
\* largest timeout argument, in seconds
MaxTimeout == 2
\* largest exit code a child chooses for itself
MaxExit == 1
\* number of output chunks a process group writes at most
MaxChunks == 2
\* polls of overhead allowed on top of a supplied timeout
OverheadPolls == 3
\* longest chain of commands given to run_piped_commands
MaxStages == 3
\* units of data a pipe buffer holds
PipeCap == 1
\* steps in which the 300 seconds of the Homebrew wait pass
BrewSteps == 6

\* number of get_logger calls, the one of the import included
MaxLoggerCalls == 3

\* number of answers the user has ready for the confirmation prompt
MaxAnswers == 3

(* ------------------------ program constants ---------------------------- *)
\* timeout=None
NoTimeout == 0
\* read_timeout = 0.1 s
ReadTimeoutMs == 100
\* max_idle_time = 2 s
MaxIdleTimeMs == 2000
\* returncode of a timed-out command, direct-pipe mode, check=False
TimeoutReturnCode == 124
\* returncode of a command whose spawn raised SubprocessError, check=False
ExceptionReturnCode == 1
\* exit status of /bin/sh -c when the command is not found (shell=True)
ShellNotFound == 127
\* timeout_seconds of _install_with_homebrew
BrewTimeoutSeconds == 300
\* returncode run_command_with_pty reports after an exception in its poll loop
PtyExceptionReturnCode == -1
\* Popen.returncode of a child ended by SIGTERM / SIGKILL
SIGTERM == 15
SIGKILL == 9
SIGPIPE == 13

VARIABLES
    cmd,            \* arguments of the call: check, shell, timeout, preserve_color, is_status
    env,            \* behaviour of the command: spawnErr, exitCode, ignoresTerm, descendant,
                    \* ptyErr: "poll" (select raises, e.g. on a descriptor beyond
                    \* FD_SETSIZE), "cleanup" (os.chdir(old_cwd) raises in finally)
    pc,             \* position of run_command
    child,          \* "none" | "running" | "exited" | "killed"   (the Popen child)
    childStatus,    \* exit status of the child once it is not running
    reaped,         \* the child has been waited for (Popen.returncode is set)
    grandchild,     \* "none" | "running" | "dead"  (a descendant of the same group)
    emitted,        \* chunks the group has written to its stdout so far
    ptyBuf,         \* bytes waiting on the controlling side of the pseudo-terminal
    output,         \* run_command_with_pty: output
    idle_count,     \* run_command_with_pty: idle_count
    timeout_count,  \* run_command_with_pty: timeout_count
    clock,          \* polls of wall-clock time since the call began
    timeout_hit,    \* "none", or the state of the child when the timeout fired
    alive_at_timeout, \* processes of the group that were running when the timeout fired
    signalled,      \* processes of the group a termination signal was sent to
    spawns,         \* number of children spawned by this call
    log,            \* levels of the log messages emitted, in order
    outcomes,       \* what the call delivered to its caller, in order
    pipeline,       \* run_piped_commands: n commands, check, timeout, what each stage does
    stage,          \* per stage: state, data still to write, exit status
    outPipe,        \* per stage: units waiting in its stdout pipe
    errPipe,        \* per stage: units waiting in its stderr pipe
    heldByParent,   \* stages whose stdout read end the parent still holds open
    captured,       \* what communicate() has read from the final stage
    brew,           \* _install_with_homebrew: what the brew command and the system do
    brew_pc,        \* position of _install_with_homebrew
    command_thread, \* the worker thread: state and daemon flag
    command_finished, \* threading.Event: set or not
    waited,         \* seconds the caller has spent in command_finished.wait
    brew_result,    \* "none" | "success" | "manual" (handed to _install_manually)
    script,         \* uninstall_docker.py: platform, what the user types, what uninstall does
    script_pc,      \* position of the entry script
    confirm,        \* the lowered answer of the prompt
    uninstall_calls, \* number of calls of docker_uninstaller.uninstall_docker
    exit_status,     \* "none", or the code given to sys.exit
    install,        \* the flavour of install_docker_full and what each step does
    install_pc,     \* "idle", "start", "steps" or "done"
    steps_run,      \* the names of the steps called so far, in call order
    install_errors, \* the number of error() lines install_docker_full wrote
    install_result,  \* "none", "True", or the exception type that escaped
    logger_instance, \* _logger_instance: "None" or the name of the logger object
    registry,       \* logging's loggers by name: level and handlers of each
    logger_calls,    \* history: arguments and result of every get_logger call
    since_data,     \* history: polls of the loop since the last non-empty read
    quiet,          \* history: polls of the loop since the group last wrote
    parent_cwd,     \* the parent's working directory: "old_cwd" or "cwd" (the argument)
    open_fds,       \* which of master_fd, slave_fd the parent holds open
    host,           \* the machine: is the service running, which packages and paths exist
    uninstall_pc,   \* "idle", or the step uninstall_docker_full calls next, "return", "done"
    steps_entered,  \* the steps called so far, in call order
    commands_run,   \* the check=True commands run so far, in order
    failed_in,      \* the steps in which a command raised CommandError
    uninstall_result, \* "none", "True", or the exception type that escaped
    restart,        \* is Docker installed, what stop_docker does, what each start_docker call does
    restart_pc,     \* "idle", "check", "stop", "start", "handler" or "done"
    stop_calls,     \* number of calls of stop_docker
    start_calls,    \* number of calls of start_docker
    restart_result,  \* "none", "True", or the exception type that escaped
    engine,         \* Docker.app present, the choice typed, what Homebrew does, the answers typed
    engine_pc,      \* "idle", "start", "homebrew", a call site of _install_manually, or "done"
    prompts,        \* number of times the confirmation prompt of _install_manually was shown
    engine_result   \* "none", "True", or the exception type that escaped

rcVars == <<cmd, env, pc, child, childStatus, reaped, grandchild, emitted, ptyBuf,
            output, idle_count, timeout_count, clock, timeout_hit, alive_at_timeout, signalled,
            spawns, log, outcomes>>

pipeVars == <<pipeline, stage, outPipe, errPipe, heldByParent, captured>>

brewVars == <<brew, brew_pc, command_thread, command_finished, waited, brew_result>>

scriptVars == <<script, script_pc, confirm, uninstall_calls, exit_status>>

\* _install_with_homebrew is not running
BrewIdle ==
    /\ brew = [ends |-> FALSE, finishes |-> 0, outcome |-> "returns",
               app_present |-> FALSE]
    /\ brew_pc = "idle"
    /\ command_thread = [state |-> "unstarted", daemon |-> FALSE]
    /\ command_finished = FALSE
    /\ waited = 0
    /\ brew_result = "none"

\* the uninstall entry script is not running
ScriptIdle ==
    /\ script = [system |-> "linux", typed |-> <<>>, input_raises |-> FALSE,
                 uninstall |-> "returns"]
    /\ script_pc = "idle"
    /\ confirm = <<>>
    /\ uninstall_calls = 0
    /\ exit_status = "none"

installVars == <<install, install_pc, steps_run, install_errors, install_result>>

\* install_docker_full is not running
InstallIdle ==
    /\ install = [flavour |-> "class", is_linux |-> TRUE,
                  outcome |-> [k \in 1..6 |-> "returns"]]
    /\ install_pc = "idle"
    /\ steps_run = <<>>
    /\ install_errors = 0
    /\ install_result = "none"

\* logger names a caller may pass; the first is the default
LoggerNames == {"docker-builder", "other"}

loggerVars == <<logger_instance, registry, logger_calls>>

\* the logger module is not running
LoggerIdle ==
    /\ logger_instance = "None"
    /\ registry = [n \in LoggerNames |-> [level |-> "NOTSET", handlers |-> <<>>]]
    /\ logger_calls = <<>>

ptyVars == <<since_data, quiet, parent_cwd, open_fds>>

\* the pseudo-terminal poll loop is not running
PtyIdle ==
    /\ since_data = 0
    /\ quiet = 0
    /\ parent_cwd = "old_cwd"
    /\ open_fds = {}

uninstallVars == <<host, uninstall_pc, steps_entered, commands_run, failed_in, uninstall_result>>

\* uninstall_docker_full is not running
UninstallIdle ==
    /\ host = [running |-> FALSE, packages |-> {}, paths |-> {}]
    /\ uninstall_pc = "idle"
    /\ steps_entered = <<>>
    /\ commands_run = <<>>
    /\ failed_in = {}
    /\ uninstall_result = "none"

restartVars == <<restart, restart_pc, stop_calls, start_calls, restart_result>>

\* restart_docker is not running
RestartIdle ==
    /\ restart = [installed |-> TRUE, stop |-> "returns",
                  start |-> <<"returns", "returns">>]
    /\ restart_pc = "idle"
    /\ stop_calls = 0
    /\ start_calls = 0
    /\ restart_result = "none"

engineVars == <<engine, engine_pc, prompts, engine_result>>

\* install_docker_engine is not running
EngineIdle ==
    /\ engine = [app_present |-> TRUE, choice |-> <<>>, homebrew |-> "success",
                 answers |-> <<>>]
    /\ engine_pc = "idle"
    /\ prompts = 0
    /\ engine_result = "none"

(* -------------------------- variable groups --------------------------- *)
appVars == <<brewVars, scriptVars, installVars, loggerVars, ptyVars, uninstallVars, restartVars, engineVars>>

vars == <<rcVars, pipeVars, appVars>>

AppIdle == BrewIdle /\ ScriptIdle /\ InstallIdle /\ LoggerIdle /\ PtyIdle /\ UninstallIdle /\ RestartIdle /\ EngineIdle

\* everything _install_with_homebrew leaves alone
notBrewVars == <<rcVars, pipeVars, scriptVars, installVars, loggerVars, ptyVars, uninstallVars, restartVars, engineVars>>

BrewOthersIdle == ScriptIdle /\ InstallIdle /\ LoggerIdle /\ PtyIdle /\ UninstallIdle /\ RestartIdle /\ EngineIdle

\* everything the uninstall entry script leaves alone
notScriptVars == <<rcVars, pipeVars, brewVars, installVars, loggerVars, ptyVars, uninstallVars, restartVars, engineVars>>

ScriptOthersIdle == BrewIdle /\ InstallIdle /\ LoggerIdle /\ PtyIdle /\ UninstallIdle /\ RestartIdle /\ EngineIdle

\* everything install_docker_full leaves alone
notInstallVars == <<rcVars, pipeVars, brewVars, scriptVars, loggerVars, ptyVars, uninstallVars, restartVars, engineVars>>

InstallOthersIdle == BrewIdle /\ ScriptIdle /\ LoggerIdle /\ PtyIdle /\ UninstallIdle /\ RestartIdle /\ EngineIdle

\* everything the logger module leaves alone
notLoggerVars == <<rcVars, pipeVars, brewVars, scriptVars, installVars, ptyVars, uninstallVars, restartVars, engineVars>>

LoggerOthersIdle == BrewIdle /\ ScriptIdle /\ InstallIdle /\ PtyIdle /\ UninstallIdle /\ RestartIdle /\ EngineIdle

\* the application variables the pseudo-terminal poll loop leaves alone
appVarsButPty == <<brewVars, scriptVars, installVars, loggerVars, uninstallVars, restartVars, engineVars>>

\* everything uninstall_docker_full leaves alone
notUninstallVars == <<rcVars, pipeVars, brewVars, scriptVars, installVars, loggerVars, ptyVars, restartVars, engineVars>>

UninstallOthersIdle == BrewIdle /\ ScriptIdle /\ InstallIdle /\ LoggerIdle /\ PtyIdle /\ RestartIdle /\ EngineIdle

\* everything restart_docker leaves alone
notRestartVars == <<rcVars, pipeVars, brewVars, scriptVars, installVars, loggerVars, ptyVars, uninstallVars, engineVars>>

RestartOthersIdle == BrewIdle /\ ScriptIdle /\ InstallIdle /\ LoggerIdle /\ PtyIdle /\ UninstallIdle /\ EngineIdle

\* everything install_docker_engine leaves alone
notEngineVars == <<rcVars, pipeVars, brewVars, scriptVars, installVars, loggerVars, ptyVars, uninstallVars, restartVars>>

EngineOthersIdle == BrewIdle /\ ScriptIdle /\ InstallIdle /\ LoggerIdle /\ PtyIdle /\ UninstallIdle /\ RestartIdle

(* ----------------------- end of variable groups ----------------------- *)

(* ----------------------------- helpers --------------------------------- *)
Min(a, b) == IF a < b THEN a ELSE b

\* payload: chunk i is one letter followed by a line feed
Letter(i) == IF i = 1 THEN "a" ELSE IF i = 2 THEN "b" ELSE IF i = 3 THEN "c" ELSE "d"
Chunk(i) == <<Letter(i), "LF">>

RECURSIVE Payload(_)
Payload(n) == IF n = 0 THEN <<>> ELSE Payload(n - 1) \o Chunk(n)

\* line discipline of the terminal (ONLCR): a line feed leaves as CR LF
RECURSIVE Onlcr(_)
Onlcr(s) == IF s = <<>> THEN <<>>
            ELSE (IF Head(s) = "LF" THEN <<"CR", "LF">> ELSE <<Head(s)>>) \o Onlcr(Tail(s))

(* --------------------------- run_command ------------------------------- *)
\* timeout / read_timeout
TimeoutPolls(t) == (t * 1000) \div ReadTimeoutMs

\* max_idle_time / read_timeout
IdlePolls == MaxIdleTimeMs \div ReadTimeoutMs

\* the clock saturates here
ClockCap == TimeoutPolls(MaxTimeout) + OverheadPolls + 2

\* subprocess.CompletedProcess(args, returncode, stdout, stderr)
Result(rc, out, err) ==
    [kind |-> "return", type |-> "CompletedProcess", returncode |-> rc,
     stdout |-> out, text |-> err]

\* an exception leaving the call; msg = "returncode" when the message carries rc
Error(type, msg, rc) ==
    [kind |-> "raise", type |-> type, returncode |-> rc, stdout |-> <<>>, text |-> msg]

\* return / raise: the call ends and hands o to its caller
Deliver(o) == outcomes' = Append(outcomes, o) /\ pc' = "done"

\* a check that raises whenever check is set
CheckFailsAlways(check, rc) == check

\* if check and result.returncode != 0
CheckFails(check, rc) == check /\ rc # 0

\* the tail of the direct-pipe path: raise CommandError or return result
DirectOutcome(check, rc, out) ==
    IF CheckFails(check, rc)
        THEN Error("CommandError", "returncode", rc)
        ELSE Result(rc, out, "child")

\* except subprocess.TimeoutExpired
TimeoutOutcome(check) ==
    IF check
        THEN Error("CommandError", "timeout", 0)
        ELSE Result(TimeoutReturnCode, <<>>, "timeout")

\* a handler that logs, raises when check is set, and otherwise forgets its return
TimeoutHandlerFallsOff(check) ==
    IF check THEN Deliver(TimeoutOutcome(check))
             ELSE pc' = "done" /\ UNCHANGED outcomes

\* the handler ends the call with that outcome
TimeoutHandler(check) == Deliver(TimeoutOutcome(check))

\* except subprocess.SubprocessError
SubprocessErrorOutcome(check) ==
    IF check
        THEN Error("CommandError", "exception", 0)
        ELSE Result(ExceptionReturnCode, <<>>, "exception")

\* a result that hands the child's error text back in stderr
PtyOutcomeWithStderr(check, rc, out) == Result(rc, out, "child")

\* the result built from run_command_with_pty's dict; check is not consulted
PtyOutcome(check, rc, out) == Result(rc, out, "")

\* what Popen does in direct-pipe mode
DirectSpawn(shell, spawnErr) ==
    IF spawnErr = "SubprocessError" THEN "SubprocessError"
    ELSE IF spawnErr = "OSError" /\ ~shell THEN "OSError"
    ELSE "spawned"

\* what Popen(cmd_list, shell=False, preexec_fn=os.setsid) does in pseudo-terminal mode
PtySpawnResult(spawnErr) == IF spawnErr = "none" THEN "spawned" ELSE spawnErr

\* exit status the child ends with when nobody kills it
ExitCode == IF cmd.shell /\ env.spawnErr = "OSError" THEN ShellNotFound ELSE env.exitCode

Commands ==
    [check : BOOLEAN, shell : BOOLEAN, timeout : NoTimeout .. MaxTimeout,
     preserve_color : BOOLEAN, is_status : BOOLEAN]

Behaviours ==
    [spawnErr : {"none"}, exitCode : 0 .. MaxExit, ignoresTerm : BOOLEAN,
     descendant : {"none", "foreground", "background"}, ptyErr : {"none"}]
    \cup
    [spawnErr : {"OSError", "SubprocessError"}, exitCode : {0}, ignoresTerm : {FALSE},
     descendant : {"none"}, ptyErr : {"none"}]
    \cup
    [spawnErr : {"none"}, exitCode : 0 .. MaxExit, ignoresTerm : {FALSE},
     descendant : {"none"}, ptyErr : {"poll", "cleanup"}]

RcInit ==
    /\ cmd \in Commands
    /\ env \in Behaviours
    /\ pc = "start"
    /\ child = "none"
    /\ childStatus = 0
    /\ reaped = FALSE
    /\ grandchild = "none"
    /\ emitted = 0
    /\ ptyBuf = <<>>
    /\ output = <<>>
    /\ idle_count = 0
    /\ timeout_count = 0
    /\ clock = 0
    /\ timeout_hit = "none"
    /\ alive_at_timeout = {}
    /\ signalled = {}
    /\ spawns = 0
    /\ log = <<>>
    /\ outcomes = <<>>

InPty == pc \in {"pty_loop", "pty_wait"}

(* the process group *)
SpawnGroup ==
    /\ child' = "running"
    /\ grandchild' = IF env.descendant = "none" THEN "none" ELSE "running"
    /\ spawns' = spawns + 1

\* the processes of the group that are running
Alive ==
    (IF child = "running" THEN {"child"} ELSE {})
        \cup (IF grandchild = "running" THEN {"grandchild"} ELSE {})

\* os.killpg(os.getpgid(process.pid), signal.SIGTERM)
KillGroupTerm ==
    /\ child' = IF child = "running" /\ ~env.ignoresTerm THEN "killed" ELSE child
    /\ childStatus' = IF child = "running" /\ ~env.ignoresTerm THEN -SIGTERM ELSE childStatus
    /\ grandchild' = IF grandchild = "running" /\ ~env.ignoresTerm THEN "dead" ELSE grandchild
    /\ signalled' = signalled \cup {"child"}
                        \cup (IF grandchild = "running" THEN {"grandchild"} ELSE {})

\* process.kill(): SIGKILL to the child alone
KillChild ==
    /\ child' = IF child = "running" THEN "killed" ELSE child
    /\ childStatus' = IF child = "running" THEN -SIGKILL ELSE childStatus
    /\ signalled' = signalled \cup {"child"}
    /\ UNCHANGED grandchild

\* both pipes (or the subordinate side of the terminal) are closed by every holder
StreamsClosed == child # "running" /\ grandchild # "running"

ChildExit ==
    /\ pc # "done"
    /\ child = "running"
    /\ env.descendant = "foreground" => grandchild # "running"
    /\ child' = "exited"
    /\ childStatus' = ExitCode
    /\ UNCHANGED <<alive_at_timeout, signalled, cmd, env, pc, reaped, grandchild, emitted, ptyBuf, output, idle_count,
                   timeout_count, clock, timeout_hit, spawns, log, outcomes>>
    /\ UNCHANGED <<pipeVars, appVars>>

GrandchildExit ==
    /\ pc # "done"
    /\ grandchild = "running"
    /\ grandchild' = "dead"
    /\ UNCHANGED <<alive_at_timeout, signalled, cmd, env, pc, child, childStatus, reaped, emitted, ptyBuf, output,
                   idle_count, timeout_count, clock, timeout_hit, spawns, log, outcomes>>
    /\ UNCHANGED <<pipeVars, appVars>>

GroupWrite ==
    /\ pc # "done"
    /\ child = "running" \/ grandchild = "running"
    /\ emitted < MaxChunks
    /\ emitted' = emitted + 1
    /\ ptyBuf' = IF InPty THEN ptyBuf \o Onlcr(Chunk(emitted + 1)) ELSE ptyBuf
    /\ UNCHANGED <<alive_at_timeout, signalled, cmd, env, pc, child, childStatus, reaped, grandchild, output, idle_count,
                   timeout_count, clock, timeout_hit, spawns, log, outcomes>>
    /\ quiet' = IF pc = "pty_loop" THEN 0 ELSE quiet
    /\ UNCHANGED <<since_data, parent_cwd, open_fds>>
    /\ UNCHANGED <<pipeVars, appVarsButPty>>

Tick == clock' = Min(clock + 1, ClockCap)

(* run_command_with_pty, up to the poll loop, called with a cwd argument:
   os.chdir(cwd), pty.openpty(), Popen, os.close(slave_fd).  All of this stands
   before the try block: when Popen raises, nothing is undone, and run_command
   warns and falls back to the direct-pipe path *)
PtySpawn ==
    /\ pc = "start"
    /\ cmd.preserve_color
    /\ IF PtySpawnResult(env.spawnErr) = "spawned"
          THEN /\ SpawnGroup
               /\ Tick
               /\ pc' = "pty_loop"
               /\ open_fds' = {"master_fd"}
               /\ UNCHANGED log
          ELSE /\ log' = Append(log, "warning")
               /\ pc' = "popen"
               /\ open_fds' = {"master_fd", "slave_fd"}
               /\ UNCHANGED <<child, grandchild, spawns, clock>>
    /\ UNCHANGED <<alive_at_timeout, signalled, cmd, env, childStatus, reaped, emitted, ptyBuf, output, idle_count,
                   timeout_count, timeout_hit, outcomes>>
    /\ parent_cwd' = "cwd"
    /\ UNCHANGED <<since_data, quiet>>
    /\ UNCHANGED <<pipeVars, appVarsButPty>>

\* if timeout and timeout_count >= timeout / read_timeout
PtyTimedOut(timeout, count) == timeout # NoTimeout /\ count >= TimeoutPolls(timeout)

\* if idle_count >= max_idle_time / read_timeout
IdleReached(idle) == idle >= IdlePolls

PtyTimeoutKill ==
    /\ pc = "pty_loop"
    /\ PtyTimedOut(cmd.timeout, timeout_count)
    /\ KillGroupTerm
    /\ timeout_hit' = child
    /\ alive_at_timeout' = Alive
    /\ pc' = "pty_wait"
    /\ UNCHANGED <<cmd, env, reaped, emitted, ptyBuf, output, idle_count, timeout_count,
                   clock, spawns, log, outcomes>>
    /\ UNCHANGED <<pipeVars, appVars>>

\* the two checks that close an iteration of the poll loop
AfterPoll(idle) ==
    IF cmd.is_status /\ IdleReached(idle)
        THEN KillGroupTerm /\ pc' = "pty_wait"
        ELSE /\ pc' = IF IdleReached(idle) THEN "pty_wait" ELSE "pty_loop"
             /\ UNCHANGED <<child, childStatus, grandchild, signalled>>

\* an accumulation that puts the newest bytes first
AccumulateInFront(out, data) == data \o out

\* output += data
Accumulate(out, data) == out \o data

\* a loop that keeps its idle count when data arrives
IdleKeptAfterData(idle) == idle

\* idle_count = 0 after output += data
IdleAfterData(idle) == 0

\* select reports data, os.read returns it
PtyRead ==
    /\ pc = "pty_loop"
    /\ ~PtyTimedOut(cmd.timeout, timeout_count)
    /\ env.ptyErr # "poll"
    /\ ptyBuf # <<>>
    /\ output' = Accumulate(output, ptyBuf)
    /\ ptyBuf' = <<>>
    /\ idle_count' = IdleAfterData(idle_count)
    /\ AfterPoll(IdleAfterData(idle_count))
    /\ UNCHANGED <<alive_at_timeout, cmd, env, reaped, emitted, timeout_count, clock, timeout_hit, spawns,
                   log, outcomes>>
    /\ since_data' = 0
    /\ UNCHANGED <<quiet, parent_cwd, open_fds>>
    /\ UNCHANGED <<pipeVars, appVarsButPty>>

\* every holder of the subordinate side is gone: os.read raises OSError (Linux)
\* or returns no bytes (BSD)
PtyEof ==
    /\ pc = "pty_loop"
    /\ ~PtyTimedOut(cmd.timeout, timeout_count)
    /\ env.ptyErr # "poll"
    /\ ptyBuf = <<>>
    /\ StreamsClosed
    /\ \E raises \in BOOLEAN :
          IF raises
             THEN /\ pc' = "pty_wait"
                  /\ UNCHANGED <<idle_count, child, childStatus, grandchild, signalled,
                                 since_data, quiet>>
             ELSE /\ idle_count' = idle_count + 1
                  /\ since_data' = since_data + 1
                  /\ quiet' = Min(quiet + 1, IdlePolls)
                  /\ AfterPoll(idle_count + 1)
    /\ UNCHANGED <<alive_at_timeout, cmd, env, reaped, emitted, ptyBuf, output, timeout_count, clock,
                   timeout_hit, spawns, log, outcomes>>
    /\ UNCHANGED <<parent_cwd, open_fds>>
    /\ UNCHANGED <<pipeVars, appVarsButPty>>

\* select times out after read_timeout; process.poll() decides
PtyIdlePoll ==
    /\ pc = "pty_loop"
    /\ ~PtyTimedOut(cmd.timeout, timeout_count)
    /\ env.ptyErr # "poll"
    /\ ptyBuf = <<>>
    /\ ~StreamsClosed
    /\ Tick
    /\ IF child # "running"
          THEN /\ reaped' = TRUE
               /\ pc' = "pty_wait"
               /\ UNCHANGED <<idle_count, timeout_count, child, childStatus, grandchild,
                              signalled, since_data, quiet>>
          ELSE /\ idle_count' = idle_count + 1
               /\ timeout_count' = timeout_count + 1
               /\ since_data' = since_data + 1
               /\ quiet' = Min(quiet + 1, IdlePolls)
               /\ AfterPoll(idle_count + 1)
               /\ UNCHANGED reaped
    /\ UNCHANGED <<alive_at_timeout, cmd, env, emitted, ptyBuf, output, timeout_hit, spawns, log, outcomes>>
    /\ UNCHANGED <<parent_cwd, open_fds>>
    /\ UNCHANGED <<pipeVars, appVarsButPty>>

\* except Exception: process.kill() (which polls first and so reaps a child that
\* has already ended), returncode = -1, and the dict is returned without a wait
PtyPollException ==
    /\ pc = "pty_loop"
    /\ ~PtyTimedOut(cmd.timeout, timeout_count)
    /\ env.ptyErr = "poll"
    /\ reaped' = (child # "running")
    /\ KillChild
    /\ Deliver(PtyOutcome(cmd.check, PtyExceptionReturnCode, output))
    /\ UNCHANGED <<alive_at_timeout, cmd, env, emitted, ptyBuf, output, idle_count,
                   timeout_count, clock, timeout_hit, spawns, log>>
    /\ open_fds' = {}
    /\ parent_cwd' = "old_cwd"
    /\ UNCHANGED <<since_data, quiet>>
    /\ UNCHANGED <<pipeVars, appVarsButPty>>

\* returncode = process.wait(); finally: os.close(master_fd), os.chdir(old_cwd);
\* the dict is returned and run_command returns the result; when the chdir of
\* the finally block raises (the old working directory is gone), the exception
\* leaves run_command_with_pty and run_command falls back to Popen
PtyWait ==
    /\ pc = "pty_wait"
    /\ child # "running"
    /\ IF env.ptyErr = "cleanup"
          THEN /\ log' = Append(log, "warning")
               /\ pc' = "popen"
               /\ reaped' = FALSE
               /\ emitted' = 0
               /\ ptyBuf' = <<>>
               /\ output' = <<>>
               /\ idle_count' = 0
               /\ timeout_count' = 0
               /\ since_data' = 0
               /\ quiet' = 0
               /\ UNCHANGED <<outcomes, parent_cwd>>
          ELSE /\ reaped' = TRUE
               /\ parent_cwd' = "old_cwd"
               /\ Deliver(PtyOutcome(cmd.check, childStatus, output))
               /\ UNCHANGED <<log, emitted, ptyBuf, output, idle_count, timeout_count,
                              since_data, quiet>>
    /\ UNCHANGED <<alive_at_timeout, signalled, cmd, env, child, childStatus, grandchild,
                   clock, timeout_hit, spawns>>
    /\ open_fds' = {}
    /\ UNCHANGED <<pipeVars, appVarsButPty>>

(* direct-pipe mode *)
Popen ==
    /\ pc = "popen" \/ (pc = "start" /\ ~cmd.preserve_color)
    /\ LET r == DirectSpawn(cmd.shell, env.spawnErr) IN
          CASE r = "spawned" ->
                  /\ SpawnGroup
                  /\ pc' = "communicate"
                  /\ UNCHANGED <<log, outcomes>>
            [] r = "OSError" ->
                  /\ Deliver(Error("OSError", "exception", 0))
                  /\ UNCHANGED <<child, grandchild, spawns, log>>
            [] r = "SubprocessError" ->
                  /\ log' = log \o <<"error", "error">>
                  /\ Deliver(SubprocessErrorOutcome(cmd.check))
                  /\ UNCHANGED <<child, grandchild, spawns>>
    /\ UNCHANGED <<alive_at_timeout, signalled, cmd, env, childStatus, reaped, emitted, ptyBuf, output, idle_count,
                   timeout_count, clock, timeout_hit>>
    /\ UNCHANGED <<pipeVars, appVars>>

\* process.communicate(timeout=timeout) returns
Communicate ==
    /\ pc = "communicate"
    /\ StreamsClosed
    /\ reaped' = TRUE
    /\ log' = IF CheckFails(cmd.check, childStatus)
                 THEN log \o <<"error", "error", "error">> ELSE log
    /\ Deliver(DirectOutcome(cmd.check, childStatus, Payload(emitted)))
    /\ UNCHANGED <<alive_at_timeout, signalled, cmd, env, child, childStatus, grandchild, emitted, ptyBuf, output,
                   idle_count, timeout_count, clock, timeout_hit, spawns>>
    /\ UNCHANGED <<pipeVars, appVars>>

\* communicate raises TimeoutExpired; process.kill()
CommunicateTimeout ==
    /\ pc = "communicate"
    /\ ~StreamsClosed
    /\ cmd.timeout # NoTimeout
    /\ clock >= TimeoutPolls(cmd.timeout)
    /\ KillChild
    /\ timeout_hit' = child
    /\ alive_at_timeout' = Alive
    /\ pc' = "communicate_after_kill"
    /\ UNCHANGED <<cmd, env, reaped, emitted, ptyBuf, output, idle_count, timeout_count,
                   clock, spawns, log, outcomes>>
    /\ UNCHANGED <<pipeVars, appVars>>

\* the second communicate() returns, TimeoutExpired reaches its handler
CommunicateAfterKill ==
    /\ pc = "communicate_after_kill"
    /\ StreamsClosed
    /\ reaped' = TRUE
    /\ log' = log \o <<"error", "error">>
    /\ TimeoutHandler(cmd.check)
    /\ UNCHANGED <<alive_at_timeout, signalled, cmd, env, child, childStatus, grandchild, emitted, ptyBuf, output,
                   idle_count, timeout_count, clock, timeout_hit, spawns>>
    /\ UNCHANGED <<pipeVars, appVars>>

\* a blocking call keeps blocking for another 100 ms
Blocked ==
    \/ pc = "pty_wait" /\ child = "running"
    \/ pc = "communicate" /\ ~StreamsClosed
          /\ (cmd.timeout = NoTimeout \/ clock < TimeoutPolls(cmd.timeout))
    \/ pc = "communicate_after_kill" /\ ~StreamsClosed

Wait ==
    /\ Blocked
    /\ Tick
    /\ UNCHANGED <<alive_at_timeout, signalled, cmd, env, pc, child, childStatus, reaped, grandchild, emitted, ptyBuf,
                   output, idle_count, timeout_count, timeout_hit, spawns, log, outcomes>>
    /\ UNCHANGED <<pipeVars, appVars>>

\* no pipeline is run
PipeIdle ==
    /\ pipeline = [n |-> 0]
    /\ stage = <<>>
    /\ outPipe = <<>>
    /\ errPipe = <<>>
    /\ heldByParent = {}
    /\ captured = [out |-> 0, err |-> 0]

Init == RcInit /\ PipeIdle /\ AppIdle

Next ==
    \/ PtySpawn
    \/ PtyTimeoutKill
    \/ PtyRead
    \/ PtyEof
    \/ PtyIdlePoll
    \/ PtyPollException
    \/ PtyWait
    \/ Popen
    \/ Communicate
    \/ CommunicateTimeout
    \/ CommunicateAfterKill
    \/ Wait
    \/ ChildExit
    \/ GrandchildExit
    \/ GroupWrite

Spec == Init /\ [][Next]_vars

(* ------------------------- run_piped_commands -------------------------- *)
rcOnlyVars == <<cmd, env, child, childStatus, reaped, grandchild, emitted, ptyBuf, output,
                idle_count, timeout_count, clock, alive_at_timeout, signalled, spawns,
                appVars>>

rcIdleVars == <<rcOnlyVars, timeout_hit>>

\* more data than a pipe buffer holds
BigData == PipeCap + 1

\* a stage is quiet, or writes BigData to its stdout, or writes BigData to its stderr
StageBehaviours ==
    {b \in [out : {0, BigData}, err : {0, BigData}, code : 0 .. MaxExit] :
        b.out = 0 \/ b.err = 0}

\* commands the spawn of which raises nothing, and chains one command of which
\* (failAt) cannot be spawned
Pipelines ==
    { [n |-> 0, check |-> c, timeout |-> t, readers |-> "until_eof", failAt |-> 0,
       beh |-> <<>>] : c \in BOOLEAN, t \in BOOLEAN }
    \cup
    UNION { [n : {n}, check : BOOLEAN, timeout : BOOLEAN,
             readers : {"until_eof", "may_leave_early"}, failAt : {0},
             beh : [1 .. n -> StageBehaviours]] : n \in 2 .. MaxStages }
    \cup
    UNION { [n : {n}, check : BOOLEAN, timeout : {FALSE}, readers : {"until_eof"},
             failAt : 1 .. n,
             beh : [1 .. n -> {[out |-> 0, err |-> 0, code |-> 0]}]] : n \in 2 .. MaxStages }

RcIdle ==
    /\ cmd = [check |-> TRUE, shell |-> TRUE, timeout |-> NoTimeout,
              preserve_color |-> FALSE, is_status |-> FALSE]
    /\ env = [spawnErr |-> "none", exitCode |-> 0, ignoresTerm |-> FALSE,
              descendant |-> "none", ptyErr |-> "none"]
    /\ child = "none"
    /\ childStatus = 0
    /\ reaped = FALSE
    /\ grandchild = "none"
    /\ emitted = 0
    /\ ptyBuf = <<>>
    /\ output = <<>>
    /\ idle_count = 0
    /\ timeout_count = 0
    /\ clock = 0
    /\ timeout_hit = "none"
    /\ alive_at_timeout = {}
    /\ signalled = {}
    /\ spawns = 0

PipeInit ==
    /\ pipeline \in Pipelines
    /\ stage = [i \in 1 .. pipeline.n |->
                  [state |-> "unborn", outLeft |-> pipeline.beh[i].out,
                   errLeft |-> pipeline.beh[i].err, status |-> 0]]
    /\ outPipe = [i \in 1 .. pipeline.n |-> 0]
    /\ errPipe = [i \in 1 .. pipeline.n |-> 0]
    /\ heldByParent = {}
    /\ captured = [out |-> 0, err |-> 0]
    /\ pc = "start"
    /\ log = <<>>
    /\ outcomes = <<>>

\* index of the command the next Popen starts
NextStage == Cardinality({i \in 1 .. pipeline.n : stage[i].state # "unborn"}) + 1

\* Popen(cmd, stdin=previous_process.stdout, stdout=PIPE, stderr=PIPE)
Started(k) == [stage EXCEPT ![k].state = "running"]

\* previous_process.stdout.close() after the next stage has its own copy
ClosePrevious(held, k) == (held \ {k - 1}) \cup {k}

\* except Exception as e: log, then raise CommandError or return returncode 1
PipeExceptionOutcome(check, msg, rc) ==
    IF check
        THEN Error("CommandError", msg, rc)
        ELSE Result(ExceptionReturnCode, 0, "exception")

\* a check in the manner of "set -o pipefail": any stage's status counts
PipeCheckFailsAnyStage(check, st, n) == check /\ \E i \in 1 .. n : st[i].status # 0

\* if check and final_result.returncode != 0
PipeCheckFails(check, st, n) == check /\ st[n].status # 0

\* final_result: returncode, stdout and stderr of final_process
PipeResult(st, n, cap) == Result(st[n].status, cap.out, cap.err)

\* Popen raised: the handler ends the call; the stages already started stay
PipeSpawnFails ==
    /\ log' = log \o <<"error", "error">>
    /\ Deliver(PipeExceptionOutcome(pipeline.check, "exception", 0))
    /\ UNCHANGED <<stage, heldByParent>>

\* if not commands: return CompletedProcess(args=[], returncode=0, stdout="", stderr="")
PipeEmpty ==
    /\ pc = "start"
    /\ pipeline.n = 0
    /\ Deliver(Result(0, 0, 0))
    /\ UNCHANGED <<log, pipeline, stage, outPipe, errPipe, heldByParent, captured>>
    /\ UNCHANGED rcIdleVars

PipeSpawnFirst ==
    /\ pc = "start"
    /\ pipeline.n >= 2
    /\ IF pipeline.failAt = 1
          THEN PipeSpawnFails
          ELSE /\ stage' = Started(1)
               /\ heldByParent' = {1}
               /\ pc' = "spawning"
               /\ UNCHANGED <<log, outcomes>>
    /\ UNCHANGED <<pipeline, outPipe, errPipe, captured>>
    /\ UNCHANGED rcIdleVars

\* for cmd in commands[1:-1]
PipeSpawnMiddle ==
    /\ pc = "spawning"
    /\ NextStage < pipeline.n
    /\ IF pipeline.failAt = NextStage
          THEN PipeSpawnFails
          ELSE /\ stage' = Started(NextStage)
               /\ heldByParent' = ClosePrevious(heldByParent, NextStage)
               /\ UNCHANGED <<pc, log, outcomes>>
    /\ UNCHANGED <<pipeline, outPipe, errPipe, captured>>
    /\ UNCHANGED rcIdleVars

PipeSpawnFinal ==
    /\ pc = "spawning"
    /\ NextStage = pipeline.n
    /\ IF pipeline.failAt = NextStage
          THEN PipeSpawnFails
          ELSE /\ stage' = Started(NextStage)
               /\ heldByParent' = ClosePrevious(heldByParent, NextStage)
               /\ pc' = "communicate"
               /\ UNCHANGED <<log, outcomes>>
    /\ UNCHANGED <<pipeline, outPipe, errPipe, captured>>
    /\ UNCHANGED rcIdleVars

\* communicate() of the final stage reads what its two pipes hold
PipeCommunicateRead ==
    /\ pc = "communicate"
    /\ outPipe[pipeline.n] > 0 \/ errPipe[pipeline.n] > 0
    /\ captured' = [out |-> captured.out + outPipe[pipeline.n],
                    err |-> captured.err + errPipe[pipeline.n]]
    /\ outPipe' = [outPipe EXCEPT ![pipeline.n] = 0]
    /\ errPipe' = [errPipe EXCEPT ![pipeline.n] = 0]
    /\ UNCHANGED <<pc, log, outcomes, pipeline, stage, heldByParent>>
    /\ UNCHANGED rcIdleVars

\* the final stage has ended and both of its pipes are read to the end
FinalDone ==
    /\ stage[pipeline.n].state # "running"
    /\ outPipe[pipeline.n] = 0
    /\ errPipe[pipeline.n] = 0

\* communicate() returns; the check raises CommandError inside the try, the
\* handler logs it again and raises CommandError around it
PipeCommunicate ==
    /\ pc = "communicate"
    /\ FinalDone
    /\ IF PipeCheckFails(pipeline.check, stage, pipeline.n)
          THEN /\ log' = log \o <<"error", "error", "error", "error", "error">>
               /\ Deliver(PipeExceptionOutcome(pipeline.check, "returncode",
                                               stage[pipeline.n].status))
          ELSE /\ Deliver(PipeResult(stage, pipeline.n, captured))
               /\ UNCHANGED log
    /\ UNCHANGED <<pipeline, stage, outPipe, errPipe, heldByParent, captured>>
    /\ UNCHANGED rcIdleVars

\* communicate(timeout) raises TimeoutExpired: final_process.kill(), communicate(),
\* and the handler of Exception ends the call
PipeTimeout ==
    /\ pc = "communicate"
    /\ pipeline.timeout
    /\ ~FinalDone
    /\ timeout_hit' = stage[pipeline.n].state
    /\ stage' = IF stage[pipeline.n].state = "running"
                   THEN [stage EXCEPT ![pipeline.n].state = "killed",
                                      ![pipeline.n].status = -SIGKILL]
                   ELSE stage
    /\ outPipe' = [outPipe EXCEPT ![pipeline.n] = 0]
    /\ errPipe' = [errPipe EXCEPT ![pipeline.n] = 0]
    /\ log' = log \o <<"error", "error">>
    /\ Deliver(PipeExceptionOutcome(pipeline.check, "timeout", 0))
    /\ UNCHANGED <<pipeline, heldByParent, captured>>
    /\ UNCHANGED rcOnlyVars

(* the stages *)
Running(i) == pc # "done" /\ stage[i].state = "running"

\* somebody still holds the read end of stage i's stdout pipe
HasReader(i) ==
    \/ i \in heldByParent
    \/ i < pipeline.n /\ stage[i + 1].state = "running"

\* stage i has read its stdin to the end
StdinAtEof(i) ==
    IF i = 1 THEN TRUE
    ELSE stage[i - 1].state \notin {"unborn", "running"} /\ outPipe[i - 1] = 0

StageRead(i) ==
    /\ Running(i)
    /\ i >= 2
    /\ outPipe[i - 1] > 0
    /\ outPipe' = [outPipe EXCEPT ![i - 1] = @ - 1]
    /\ UNCHANGED <<pc, log, outcomes, pipeline, stage, errPipe, heldByParent, captured>>
    /\ UNCHANGED rcIdleVars

\* write(1, ...): SIGPIPE without a reader, blocked while the pipe is full
StageWriteOut(i) ==
    /\ Running(i)
    /\ stage[i].outLeft > 0
    /\ IF ~HasReader(i)
          THEN /\ stage' = [stage EXCEPT ![i].state = "killed", ![i].status = -SIGPIPE]
               /\ UNCHANGED outPipe
          ELSE /\ outPipe[i] < PipeCap
               /\ outPipe' = [outPipe EXCEPT ![i] = @ + 1]
               /\ stage' = [stage EXCEPT ![i].outLeft = @ - 1]
    /\ UNCHANGED <<pc, log, outcomes, pipeline, errPipe, heldByParent, captured>>
    /\ UNCHANGED rcIdleVars

\* write(2, ...): the parent holds every stderr pipe and reads the final one only
StageWriteErr(i) ==
    /\ Running(i)
    /\ stage[i].errLeft > 0
    /\ errPipe[i] < PipeCap
    /\ errPipe' = [errPipe EXCEPT ![i] = @ + 1]
    /\ stage' = [stage EXCEPT ![i].errLeft = @ - 1]
    /\ UNCHANGED <<pc, log, outcomes, pipeline, outPipe, heldByParent, captured>>
    /\ UNCHANGED rcIdleVars

StageExit(i) ==
    /\ Running(i)
    /\ stage[i].outLeft = 0
    /\ stage[i].errLeft = 0
    /\ pipeline.readers = "until_eof" => StdinAtEof(i)
    /\ stage' = [stage EXCEPT ![i].state = "exited", ![i].status = pipeline.beh[i].code]
    /\ UNCHANGED <<pc, log, outcomes, pipeline, outPipe, errPipe, heldByParent, captured>>
    /\ UNCHANGED rcIdleVars

PipeNext ==
    \/ PipeEmpty
    \/ PipeSpawnFirst
    \/ PipeSpawnMiddle
    \/ PipeSpawnFinal
    \/ PipeCommunicateRead
    \/ PipeCommunicate
    \/ PipeTimeout
    \/ \E i \in 1 .. pipeline.n : StageRead(i)
    \/ \E i \in 1 .. pipeline.n : StageWriteOut(i)
    \/ \E i \in 1 .. pipeline.n : StageWriteErr(i)
    \/ \E i \in 1 .. pipeline.n : StageExit(i)

PipeSpecInit == PipeInit /\ RcIdle /\ AppIdle

SpecPipe == PipeSpecInit /\ [][PipeNext]_vars

(* ------------------------ run_command_with_input ----------------------- *)
\* except Exception as e: raise CommandError when check is set, else returncode 1
InputExceptionOutcome(check, msg, rc) ==
    IF check
        THEN Error("CommandError", msg, rc)
        ELSE Result(ExceptionReturnCode, <<>>, "exception")

\* the handler of Exception: two error() calls, then the outcome
InputHandler(check, msg, rc) ==
    /\ log' = log \o <<"error", "error">>
    /\ Deliver(InputExceptionOutcome(check, msg, rc))

\* what Popen does: every exception it raises is an Exception
InputSpawnResult(shell, spawnErr) ==
    IF spawnErr = "SubprocessError" THEN "SubprocessError"
    ELSE IF spawnErr = "OSError" /\ ~shell THEN "OSError"
    ELSE "spawned"

\* one call of run_command_with_input: always direct pipes
InputInit ==
    /\ RcInit
    /\ ~cmd.preserve_color
    /\ ~cmd.is_status
    /\ PipeIdle
    /\ AppIdle

InputPopen ==
    /\ pc = "start"
    /\ IF InputSpawnResult(cmd.shell, env.spawnErr) = "spawned"
          THEN /\ SpawnGroup
               /\ pc' = "communicate"
               /\ UNCHANGED <<log, outcomes>>
          ELSE /\ InputHandler(cmd.check, "exception", 0)
               /\ UNCHANGED <<child, grandchild, spawns>>
    /\ UNCHANGED <<alive_at_timeout, signalled, cmd, env, childStatus, reaped, emitted,
                   ptyBuf, output, idle_count, timeout_count, clock, timeout_hit>>
    /\ UNCHANGED <<pipeVars, appVars>>

\* process.communicate(input, timeout) returns; the CommandError of the check is
\* raised inside the try and reaches the handler of Exception
InputCommunicate ==
    /\ pc = "communicate"
    /\ StreamsClosed
    /\ reaped' = TRUE
    /\ IF CheckFails(cmd.check, childStatus)
          THEN /\ log' = log \o <<"error", "error", "error", "error", "error">>
               /\ Deliver(InputExceptionOutcome(cmd.check, "returncode", childStatus))
          ELSE /\ Deliver(Result(childStatus, Payload(emitted), "child"))
               /\ UNCHANGED log
    /\ UNCHANGED <<alive_at_timeout, signalled, cmd, env, child, childStatus, grandchild,
                   emitted, ptyBuf, output, idle_count, timeout_count, clock, timeout_hit,
                   spawns>>
    /\ UNCHANGED <<pipeVars, appVars>>

\* communicate raises TimeoutExpired; process.kill()
InputCommunicateTimeout ==
    /\ pc = "communicate"
    /\ ~StreamsClosed
    /\ cmd.timeout # NoTimeout
    /\ clock >= TimeoutPolls(cmd.timeout)
    /\ KillChild
    /\ timeout_hit' = child
    /\ alive_at_timeout' = Alive
    /\ pc' = "communicate_after_kill"
    /\ UNCHANGED <<cmd, env, reaped, emitted, ptyBuf, output, idle_count, timeout_count,
                   clock, spawns, log, outcomes>>
    /\ UNCHANGED <<pipeVars, appVars>>

\* the second communicate() returns, TimeoutExpired reaches the handler of Exception
InputCommunicateAfterKill ==
    /\ pc = "communicate_after_kill"
    /\ StreamsClosed
    /\ reaped' = TRUE
    /\ InputHandler(cmd.check, "timeout", 0)
    /\ UNCHANGED <<alive_at_timeout, signalled, cmd, env, child, childStatus, grandchild,
                   emitted, ptyBuf, output, idle_count, timeout_count, clock, timeout_hit,
                   spawns>>
    /\ UNCHANGED <<pipeVars, appVars>>

InputNext ==
    \/ InputPopen
    \/ InputCommunicate
    \/ InputCommunicateTimeout
    \/ InputCommunicateAfterKill
    \/ Wait
    \/ ChildExit
    \/ GrandchildExit
    \/ GroupWrite

SpecInput == InputInit /\ [][InputNext]_vars

(* ----------------- MacDockerInstaller._install_with_homebrew ----------- *)
\* seconds that pass in one step of the model's clock
BrewStepSeconds == BrewTimeoutSeconds \div BrewSteps

\* the clock stops here
BrewHorizon == BrewTimeoutSeconds + 2 * BrewStepSeconds

\* the moments at which the brew command may end
BrewMoments == {k * BrewStepSeconds : k \in 0 .. BrewSteps + 1}

\* the brew command ends at some moment by returning or by raising, or never ends;
\* /Applications/Docker.app is there or not when the caller looks
BrewBehaviours ==
    [ends : {TRUE}, finishes : BrewMoments, outcome : {"returns", "raises"},
     app_present : BOOLEAN]
    \cup
    [ends : {FALSE}, finishes : {0}, outcome : {"returns"}, app_present : BOOLEAN]

\* a wait without a timeout
WaitNeverExpires(w) == FALSE

\* command_finished.wait(timeout_seconds) gives up
WaitExpired(w) == w >= BrewTimeoutSeconds

\* the next moment of the clock: the deadline of the wait is never stepped over
NextMoment(w) ==
    IF w < BrewTimeoutSeconds /\ w + BrewStepSeconds > BrewTimeoutSeconds
        THEN BrewTimeoutSeconds
        ELSE w + BrewStepSeconds

BrewInit ==
    /\ brew \in BrewBehaviours
    /\ brew_pc = "start"
    /\ command_thread = [state |-> "unstarted", daemon |-> FALSE]
    /\ command_finished = FALSE
    /\ waited = 0
    /\ brew_result = "none"
    /\ BrewOthersIdle
    /\ RcIdle
    /\ PipeIdle
    /\ pc = "idle"
    /\ log = <<>>
    /\ outcomes = <<>>

\* command_thread.daemon = True; command_thread.start()
BrewStart ==
    /\ brew_pc = "start"
    /\ command_thread' = [state |-> "running", daemon |-> TRUE]
    /\ brew_pc' = "waiting"
    /\ UNCHANGED <<brew, command_finished, waited, brew_result>>
    /\ UNCHANGED notBrewVars

\* run_brew_command: the event is set after run_command returned; an exception is
\* swallowed and the event stays as it is
BrewWorkerEnds ==
    /\ command_thread.state = "running"
    /\ brew.ends
    /\ waited >= brew.finishes
    /\ command_thread' = [command_thread EXCEPT !.state = "finished"]
    /\ command_finished' = (command_finished \/ brew.outcome = "returns")
    /\ UNCHANGED <<brew, brew_pc, waited, brew_result>>
    /\ UNCHANGED notBrewVars

\* time passes while the caller is inside command_finished.wait
BrewWaitTick ==
    /\ brew_pc = "waiting"
    /\ ~command_finished
    /\ ~WaitExpired(waited)
    /\ waited < BrewHorizon
    /\ waited' = NextMoment(waited)
    /\ UNCHANGED <<brew, brew_pc, command_thread, command_finished, brew_result>>
    /\ UNCHANGED notBrewVars

\* wait returned True: look for Docker.app, report success or go to _install_manually
BrewWaitReturns ==
    /\ brew_pc = "waiting"
    /\ command_finished
    /\ brew_result' = IF brew.app_present THEN "success" ELSE "manual"
    /\ brew_pc' = "done"
    /\ UNCHANGED <<brew, command_thread, command_finished, waited>>
    /\ UNCHANGED notBrewVars

\* wait returned False: timeout_occurred, two warnings, _install_manually
BrewWaitTimeout ==
    /\ brew_pc = "waiting"
    /\ ~command_finished
    /\ WaitExpired(waited)
    /\ brew_result' = "manual"
    /\ brew_pc' = "done"
    /\ UNCHANGED <<brew, command_thread, command_finished, waited>>
    /\ UNCHANGED notBrewVars

BrewNext ==
    \/ BrewStart
    \/ BrewWorkerEnds
    \/ BrewWaitTick
    \/ BrewWaitReturns
    \/ BrewWaitTimeout

SpecBrew == BrewInit /\ [][BrewNext]_vars

(* --------------------------- uninstall_docker.py ----------------------- *)
\* str.lower() on the letters the answers are made of
LowerChar(c) ==
    CASE c = "Y" -> "y"
      [] c = "N" -> "n"
      [] c = "E" -> "e"
      [] c = "S" -> "s"
      [] OTHER -> c

RECURSIVE Lower(_)
Lower(s) == IF s = <<>> THEN <<>> ELSE <<LowerChar(Head(s))>> \o Lower(Tail(s))

\* what the user may type at the prompt
Answers ==
    { <<"y">>, <<"Y">>, <<"n">>, <<"N">>, <<>>, <<"y", "e", "s">>, <<"Y", "E", "S">>,
      <<" ", "y">> }

\* platform.system(), the prompt (an answer, or EOFError), and what uninstall_docker does
Scripts ==
    [system : {"linux", "darwin", "windows"}, typed : Answers, input_raises : BOOLEAN,
     uninstall : {"returns", "DockerUninstallError", "Exception"}]

\* a confirmation that takes everything but a plain no
ConfirmedUnlessNo(c) == c # <<"n">>

\* the negation of: if confirm != 'y'
Confirmed(c) == c = <<"y">>

\* get_docker_uninstaller() knows Linux and macOS
Supported(system) == system \in {"linux", "darwin"}

ScriptInit ==
    /\ script \in Scripts
    /\ script_pc = "start"
    /\ confirm = <<>>
    /\ uninstall_calls = 0
    /\ exit_status = "none"
    /\ ScriptOthersIdle
    /\ RcIdle
    /\ PipeIdle
    /\ pc = "idle"
    /\ log = <<>>
    /\ outcomes = <<>>

\* sys.exit(code)
Exit(code) == exit_status' = code /\ script_pc' = "exited"

\* docker_uninstaller = get_docker_uninstaller(); DockerUninstallError ends in exit 1
ScriptGetUninstaller ==
    /\ script_pc = "start"
    /\ IF Supported(script.system)
          THEN script_pc' = "prompt" /\ UNCHANGED exit_status
          ELSE Exit(1)
    /\ UNCHANGED <<script, confirm, uninstall_calls>>
    /\ UNCHANGED notScriptVars

\* confirm = input(...).lower(); anything but 'y' cancels with exit 0; an exception
\* of input() ends in exit 1
ScriptPrompt ==
    /\ script_pc = "prompt"
    /\ IF script.input_raises
          THEN Exit(1) /\ UNCHANGED confirm
          ELSE /\ confirm' = Lower(script.typed)
               /\ IF Confirmed(Lower(script.typed))
                     THEN script_pc' = "uninstall" /\ UNCHANGED exit_status
                     ELSE Exit(0)
    /\ UNCHANGED <<script, uninstall_calls>>
    /\ UNCHANGED notScriptVars

\* docker_uninstaller.uninstall_docker(); exit 0 when it returned, exit 1 from the
\* two handlers
ScriptUninstall ==
    /\ script_pc = "uninstall"
    /\ uninstall_calls' = uninstall_calls + 1
    /\ Exit(IF script.uninstall = "returns" THEN 0 ELSE 1)
    /\ UNCHANGED <<script, confirm>>
    /\ UNCHANGED notScriptVars

ScriptNext ==
    \/ ScriptGetUninstaller
    \/ ScriptPrompt
    \/ ScriptUninstall

SpecScript == ScriptInit /\ [][ScriptNext]_vars

(* --------------------------- install_docker_full ----------------------- *)
\* the step calls of BaseDockerInstaller.install_docker_full, in source order
ClassSteps ==
    <<"update_system", "install_dependencies", "install_docker_engine",
      "install_docker_compose", "configure_docker", "start_docker_service">>

\* the step calls of install_docker_full of install-docker.py, in source order
ScriptSteps ==
    <<"update_system", "install_dependencies", "install_docker",
      "install_docker_compose", "configure_mirror", "start_docker_service">>

InstallSteps(flavour) == IF flavour = "class" THEN ClassSteps ELSE ScriptSteps

\* what a step does: it returns, raises DockerInstallError, or raises another
\* subclass of Exception (CommandError, OSError, ...)
StepOutcomes == {"returns", "DockerInstallError", "Exception"}

\* a handler that lets the exception pass as it is
InstallHandlerReraises(raised) == raised

\* except DockerInstallError: raise / except Exception: raise DockerInstallError
InstallHandler(raised) ==
    IF raised = "DockerInstallError" THEN raised ELSE "DockerInstallError"

\* only install-docker.py checks the platform, the classes are chosen by it
Installs ==
    [flavour : {"class"}, is_linux : {TRUE}, outcome : [1..6 -> StepOutcomes]]
      \cup [flavour : {"script"}, is_linux : BOOLEAN,
            outcome : [1..6 -> StepOutcomes]]

InstallInit ==
    /\ install \in Installs
    /\ install_pc = "start"
    /\ steps_run = <<>>
    /\ install_errors = 0
    /\ install_result = "none"
    /\ InstallOthersIdle
    /\ RcIdle
    /\ PipeIdle
    /\ pc = "idle"
    /\ log = <<>>
    /\ outcomes = <<>>

\* the exception `raised` reaches the handlers of install_docker_full
InstallRaise(raised) ==
    /\ install_errors' = install_errors + 1
    /\ install_result' = InstallHandler(raised)
    /\ install_pc' = "done"

\* try: info(...); in install-docker.py: if not is_linux(): raise
InstallBegin ==
    /\ install_pc = "start"
    /\ IF install.flavour = "script" /\ ~install.is_linux
         THEN InstallRaise("DockerInstallError")
         ELSE /\ install_pc' = "steps"
              /\ UNCHANGED <<install_errors, install_result>>
    /\ UNCHANGED <<install, steps_run>>
    /\ UNCHANGED notInstallVars

\* the next step is called and returns
InstallStepReturns ==
    /\ install_pc = "steps"
    /\ Len(steps_run) < 6
    /\ install.outcome[Len(steps_run) + 1] = "returns"
    /\ steps_run' = Append(steps_run, InstallSteps(install.flavour)[Len(steps_run) + 1])
    /\ UNCHANGED <<install, install_pc, install_errors, install_result>>
    /\ UNCHANGED notInstallVars

\* the next step is called and raises
InstallStepRaises ==
    /\ install_pc = "steps"
    /\ Len(steps_run) < 6
    /\ install.outcome[Len(steps_run) + 1] # "returns"
    /\ steps_run' = Append(steps_run, InstallSteps(install.flavour)[Len(steps_run) + 1])
    /\ InstallRaise(install.outcome[Len(steps_run) + 1])
    /\ UNCHANGED install
    /\ UNCHANGED notInstallVars

\* success(...); return True
InstallReturn ==
    /\ install_pc = "steps"
    /\ Len(steps_run) = 6
    /\ install_result' = "True"
    /\ install_pc' = "done"
    /\ UNCHANGED <<install, steps_run, install_errors>>
    /\ UNCHANGED notInstallVars

InstallNext ==
    \/ InstallBegin
    \/ InstallStepReturns
    \/ InstallStepRaises
    \/ InstallReturn

SpecInstall == InstallInit /\ [][InstallNext]_vars

(* ------------------------------ get_logger ----------------------------- *)
\* levels a caller may pass; the first is the default
LoggerLevels == {"INFO", "DEBUG"}

\* log_file: None, a path that can be opened, a path that cannot
LogFiles == {"None", "writable", "unwritable"}

LoggerArgs == [name : LoggerNames, level : LoggerLevels, log_file : LogFiles]

DefaultLoggerArgs == [name |-> "docker-builder", level |-> "INFO", log_file |-> "None"]

\* a guard that never finds an instance
NeverInitialized(instance) == FALSE

\* if _logger_instance is not None
AlreadyInitialized(instance) == instance # "None"

\* the handlers get_logger adds: the file handler when it could be created,
\* then the console handler
NewHandlers(log_file) ==
    (IF log_file = "writable" THEN <<"file">> ELSE <<>>) \o <<"console">>

\* one call get_logger(name, level, log_file)
GetLogger(args) ==
    IF AlreadyInitialized(logger_instance)
      THEN /\ logger_calls' = Append(logger_calls,
                                     [args |-> args, returned |-> logger_instance])
           /\ UNCHANGED <<logger_instance, registry>>
      ELSE /\ registry' = [registry EXCEPT ![args.name] =
                             [level |-> args.level,
                              handlers |-> @.handlers \o NewHandlers(args.log_file)]]
           /\ logger_instance' = args.name
           /\ logger_calls' = Append(logger_calls,
                                     [args |-> args, returned |-> args.name])

\* the module before its line `logger = get_logger()` ran
LoggerInit ==
    /\ logger_instance = "None"
    /\ registry = [n \in LoggerNames |-> [level |-> "NOTSET", handlers |-> <<>>]]
    /\ logger_calls = <<>>
    /\ LoggerOthersIdle
    /\ RcIdle
    /\ PipeIdle
    /\ pc = "idle"
    /\ log = <<>>
    /\ outcomes = <<>>

\* import of the module: logger = get_logger()
LoggerImport ==
    /\ logger_calls = <<>>
    /\ GetLogger(DefaultLoggerArgs)
    /\ UNCHANGED notLoggerVars

\* a later call by any importer
LoggerCall ==
    /\ logger_calls # <<>>
    /\ Len(logger_calls) < MaxLoggerCalls
    /\ \E args \in LoggerArgs : GetLogger(args)
    /\ UNCHANGED notLoggerVars

\* set_level(level): logger.setLevel(level) on the module's logger
LoggerSetLevel ==
    /\ logger_calls # <<>>
    /\ \E level \in LoggerLevels :
         /\ registry[logger_calls[1].returned].level # level
         /\ registry' = [registry EXCEPT ![logger_calls[1].returned].level = level]
    /\ UNCHANGED <<logger_instance, logger_calls>>
    /\ UNCHANGED notLoggerVars

LoggerNext ==
    \/ LoggerImport
    \/ LoggerCall
    \/ LoggerSetLevel

SpecLogger == LoggerInit /\ [][LoggerNext]_vars

(* ------------- LinuxDockerUninstaller.uninstall_docker_full ------------ *)
\* the step calls of uninstall_docker_full, in source order
UninstallSteps ==
    <<"stop_docker_service", "remove_docker_packages", "remove_docker_data",
      "clean_system">>

\* the packages remove_docker_packages asks rpm for, in source order
Packages == <<"docker", "docker-ce", "docker-compose">>

\* the paths remove_docker_data tests with os.path.exists, in source order
DataPaths ==
    <<"/etc/docker", "/var/lib/docker", "/var/run/docker", "/var/run/docker.sock",
      "/usr/lib/systemd/system/docker.service", "/usr/lib/systemd/system/docker.socket",
      "/etc/systemd/system/docker.service", "/etc/systemd/system/docker.socket">>

Range(s) == {s[i] : i \in 1..Len(s)}

\* the entries of s that belong to the set keep, in the order of s
RECURSIVE Select(_, _)
Select(s, keep) ==
    IF s = <<>> THEN <<>>
    ELSE (IF Head(s) \in keep THEN <<Head(s)>> ELSE <<>>) \o Select(Tail(s), keep)

Hosts ==
    [running : BOOLEAN, packages : SUBSET Range(Packages), paths : SUBSET Range(DataPaths)]

\* the check=True commands a step runs on this host when none of them fails;
\* the queries (systemctl status, rpm -q) run with check=False and never raise
StepCommands(step) ==
    CASE step = "stop_docker_service" ->
           IF host.running THEN <<"systemctl stop docker", "systemctl disable docker">>
                           ELSE <<>>
      [] step = "remove_docker_packages" -> Select(Packages, host.packages)
      [] step = "remove_docker_data" -> Select(DataPaths, host.paths)
      [] step = "clean_system" -> <<"systemctl daemon-reload", "yum clean all">>

\* a flow in which the CommandError of every step is fatal
EveryStepFatal(step) == "DockerUninstallError"

\* what the except CommandError clause of a step does
OnCommandError(step) ==
    IF step \in {"stop_docker_service", "clean_system"}
      THEN "returns True"
      ELSE "DockerUninstallError"

NextUninstallStep(step) ==
    CASE step = "stop_docker_service" -> "remove_docker_packages"
      [] step = "remove_docker_packages" -> "remove_docker_data"
      [] step = "remove_docker_data" -> "clean_system"
      [] step = "clean_system" -> "return"

UninstallInit ==
    /\ host \in Hosts
    /\ uninstall_pc = "stop_docker_service"
    /\ steps_entered = <<>>
    /\ commands_run = <<>>
    /\ failed_in = {}
    /\ uninstall_result = "none"
    /\ UninstallOthersIdle
    /\ RcIdle
    /\ PipeIdle
    /\ pc = "idle"
    /\ log = <<>>
    /\ outcomes = <<>>

\* one step: its commands run in order until one raises CommandError (the
\* k-th; k = 0 when none does); the step's handler decides what the failure
\* means, and a DockerUninstallError passes the handlers of uninstall_docker_full
UninstallStep(step) ==
    /\ steps_entered' = Append(steps_entered, step)
    /\ \E k \in 0..Len(StepCommands(step)) :
         /\ commands_run' = commands_run \o
              SubSeq(StepCommands(step), 1, IF k = 0 THEN Len(StepCommands(step)) ELSE k)
         /\ failed_in' = IF k = 0 THEN failed_in ELSE failed_in \cup {step}
         /\ IF k # 0 /\ OnCommandError(step) = "DockerUninstallError"
              THEN /\ uninstall_result' = "DockerUninstallError"
                   /\ uninstall_pc' = "done"
              ELSE /\ uninstall_pc' = NextUninstallStep(step)
                   /\ UNCHANGED uninstall_result
    /\ UNCHANGED host
    /\ UNCHANGED notUninstallVars

StopDockerService ==
    /\ uninstall_pc = "stop_docker_service"
    /\ UninstallStep("stop_docker_service")

RemoveDockerPackages ==
    /\ uninstall_pc = "remove_docker_packages"
    /\ UninstallStep("remove_docker_packages")

RemoveDockerData ==
    /\ uninstall_pc = "remove_docker_data"
    /\ UninstallStep("remove_docker_data")

CleanSystem ==
    /\ uninstall_pc = "clean_system"
    /\ UninstallStep("clean_system")

\* success(...); return True
UninstallReturn ==
    /\ uninstall_pc = "return"
    /\ uninstall_result' = "True"
    /\ uninstall_pc' = "done"
    /\ UNCHANGED <<host, steps_entered, commands_run, failed_in>>
    /\ UNCHANGED notUninstallVars

UninstallNext ==
    \/ StopDockerService
    \/ RemoveDockerPackages
    \/ RemoveDockerData
    \/ CleanSystem
    \/ UninstallReturn

SpecUninstall == UninstallInit /\ [][UninstallNext]_vars

(* ------------------ LinuxDockerStarter.restart_docker ------------------ *)
\* what a call of stop_docker or start_docker does: it returns True, raises
\* DockerStartError, or raises another subclass of Exception
CallOutcomes == {"returns", "DockerStartError", "Exception"}

\* on a machine without Docker stop_docker returns True (line 212-214) and
\* start_docker raises DockerStartError
Restarts ==
    [installed : {TRUE}, stop : CallOutcomes, start : [1..2 -> CallOutcomes]]
      \cup [installed : {FALSE}, stop : {"returns"},
            start : [1..2 -> {"DockerStartError"}]]

RestartInit ==
    /\ restart \in Restarts
    /\ restart_pc = "check"
    /\ stop_calls = 0
    /\ start_calls = 0
    /\ restart_result = "none"
    /\ RestartOthersIdle
    /\ RcIdle
    /\ PipeIdle
    /\ pc = "idle"
    /\ log = <<>>
    /\ outcomes = <<>>

\* where an exception raised inside the try block of restart_docker goes:
\* except DockerStartError (line 290) or except Exception (line 294)
TryRaises(raised) == IF raised = "DockerStartError" THEN "handler" ELSE "wrap"

\* an exception raised inside the try block
RestartRaiseInTry(raised) ==
    IF TryRaises(raised) = "handler"
      THEN restart_pc' = "handler" /\ UNCHANGED restart_result
      ELSE restart_pc' = "done" /\ restart_result' = "DockerStartError"

\* if not self.is_docker_installed(): raise DockerStartError
RestartCheckInstalled ==
    /\ restart_pc = "check"
    /\ IF restart.installed
         THEN restart_pc' = "stop" /\ UNCHANGED restart_result
         ELSE RestartRaiseInTry("DockerStartError")
    /\ UNCHANGED <<restart, stop_calls, start_calls>>
    /\ UNCHANGED notRestartVars

\* self.stop_docker(); time.sleep(2)
RestartStop ==
    /\ restart_pc = "stop"
    /\ stop_calls' = stop_calls + 1
    /\ IF restart.stop = "returns"
         THEN restart_pc' = "start" /\ UNCHANGED restart_result
         ELSE RestartRaiseInTry(restart.stop)
    /\ UNCHANGED <<restart, start_calls>>
    /\ UNCHANGED notRestartVars

\* return self.start_docker(), inside the try block
RestartStart ==
    /\ restart_pc = "start"
    /\ start_calls' = start_calls + 1
    /\ IF restart.start[start_calls + 1] = "returns"
         THEN restart_pc' = "done" /\ restart_result' = "True"
         ELSE RestartRaiseInTry(restart.start[start_calls + 1])
    /\ UNCHANGED <<restart, stop_calls>>
    /\ UNCHANGED notRestartVars

\* except DockerStartError: warning(...); return self.start_docker(); what
\* this call raises leaves restart_docker as it is
RestartHandlerStart ==
    /\ restart_pc = "handler"
    /\ start_calls' = start_calls + 1
    /\ restart_result' = IF restart.start[start_calls + 1] = "returns"
                            THEN "True" ELSE restart.start[start_calls + 1]
    /\ restart_pc' = "done"
    /\ UNCHANGED <<restart, stop_calls>>
    /\ UNCHANGED notRestartVars

RestartNext ==
    \/ RestartCheckInstalled
    \/ RestartStop
    \/ RestartStart
    \/ RestartHandlerStart

SpecRestart == RestartInit /\ [][RestartNext]_vars

(* ---------------- MacDockerInstaller.install_docker_engine ------------- *)
\* what the user may type at the prompt of the installation method
Choices == {<<"1">>, <<"2">>, <<>>}

\* what the user may type at the confirmation prompt
ManualAnswers == {<<"y">>, <<"Y">>, <<"n">>, <<>>}

\* how _install_with_homebrew ends when it is called: it returns True, or
\* it calls _install_manually after the timeout or because Docker.app is
\* missing, or an exception is raised inside its try block
HomebrewOutcomes == {"success", "timeout", "app_missing", "raises"}

Engines ==
    [app_present : BOOLEAN, choice : Choices, homebrew : HomebrewOutcomes,
     answers : [1..MaxAnswers -> ManualAnswers]]

EngineInit ==
    /\ engine \in Engines
    /\ engine_pc = "start"
    /\ prompts = 0
    /\ engine_result = "none"
    /\ EngineOthersIdle
    /\ RcIdle
    /\ PipeIdle
    /\ pc = "idle"
    /\ log = <<>>
    /\ outcomes = <<>>

\* choice = choice.strip() if choice.strip() else "2"
Chosen(typed) == IF typed = <<>> THEN <<"2">> ELSE typed

\* the handler that receives an exception raised at a call site of
\* _install_manually: the except Exception clause of the enclosing try block,
\* or the caller when the call site is itself inside a handler of
\* install_docker_engine
HandlerOf(site) ==
    CASE site = "manual" -> "engine_handler"
      [] site = "homebrew_manual" -> "homebrew_handler"
      [] site = "homebrew_handler" -> "engine_handler"
      [] site = "engine_handler" -> "done"

\* if os.path.exists(Docker.app): return True; choice = input(...)
EngineStart ==
    /\ engine_pc = "start"
    /\ IF engine.app_present
         THEN engine_pc' = "done" /\ engine_result' = "True"
         ELSE /\ engine_pc' = IF Chosen(engine.choice) = <<"1">> THEN "homebrew" ELSE "manual"
              /\ UNCHANGED engine_result
    /\ UNCHANGED <<engine, prompts>>
    /\ UNCHANGED notEngineVars

\* return self._install_with_homebrew(), up to its return or its first call of
\* _install_manually
EngineHomebrew ==
    /\ engine_pc = "homebrew"
    /\ CASE engine.homebrew = "success" ->
              engine_pc' = "done" /\ engine_result' = "True"
         [] engine.homebrew \in {"timeout", "app_missing"} ->
              engine_pc' = "homebrew_manual" /\ UNCHANGED engine_result
         [] engine.homebrew = "raises" ->
              engine_pc' = "homebrew_handler" /\ UNCHANGED engine_result
    /\ UNCHANGED <<engine, prompts>>
    /\ UNCHANGED notEngineVars

\* _install_manually called at `site`: the confirmation prompt is shown; 'y'
\* returns True through every caller, anything else raises DockerInstallError
InstallManually(site) ==
    /\ engine_pc = site
    /\ prompts < MaxAnswers
    /\ prompts' = prompts + 1
    /\ IF Confirmed(Lower(engine.answers[prompts + 1]))
         THEN engine_pc' = "done" /\ engine_result' = "True"
         ELSE /\ engine_pc' = HandlerOf(site)
              /\ engine_result' = IF HandlerOf(site) = "done"
                                     THEN "DockerInstallError" ELSE engine_result
    /\ UNCHANGED engine
    /\ UNCHANGED notEngineVars

\* return self._install_manually() of the else branch (line 106)
EngineManual ==
    /\ engine_pc = "manual"
    /\ InstallManually("manual")

\* return self._install_manually() after the timeout or the missing Docker.app
HomebrewManual ==
    /\ engine_pc = "homebrew_manual"
    /\ InstallManually("homebrew_manual")

\* except Exception of _install_with_homebrew: return self._install_manually()
HomebrewHandlerManual ==
    /\ engine_pc = "homebrew_handler"
    /\ InstallManually("homebrew_handler")

\* except CommandError / except Exception of install_docker_engine:
\* return self._install_manually()
EngineHandlerManual ==
    /\ engine_pc = "engine_handler"
    /\ InstallManually("engine_handler")

EngineNext ==
    \/ EngineStart
    \/ EngineHomebrew
    \/ EngineManual
    \/ HomebrewManual
    \/ HomebrewHandlerManual
    \/ EngineHandlerManual

SpecEngine == EngineInit /\ [][EngineNext]_vars

(* ------------------------- claims on run_command ----------------------- *)
Done == pc = "done"

\* the outcome the finished call handed to its caller
Outcome == outcomes[1]

\* the child ended on its own with status c, no timeout fired and the poll loop
\* raised no exception
ExitedWith(c) ==
    child = "exited" /\ childStatus = c /\ timeout_hit = "none" /\ env.ptyErr # "poll"

\* C1: every invocation of run_command that ends, ends in exactly one outcome, a
\* returned CompletedProcess or a raised error: never two, never none, and nothing
\* is delivered before the call ends.
C1_ExactlyOneOutcome ==
    /\ Len(outcomes) <= 1
    /\ Done <=> Len(outcomes) = 1
    /\ Done => \/ Outcome.kind = "return" /\ Outcome.type = "CompletedProcess"
               \/ Outcome.kind = "raise" /\ Outcome.type \in {"CommandError", "OSError"}

\* reached: a timed-out direct-pipe call with check=False has returned its result
C1_Witness ==
    /\ Done
    /\ ~cmd.preserve_color
    /\ ~cmd.check
    /\ timeout_hit = "running"
    /\ Len(outcomes) = 1
    /\ Outcome.kind = "return"

\* C2: a child that exits with code c # 0 makes run_command raise the command
\* failure carrying c when check=True and return returncode c when check=False,
\* in direct-pipe mode and in pseudo-terminal mode.
C2_NonZeroExitReported ==
    (Done /\ child = "exited" /\ childStatus # 0 /\ timeout_hit = "none")
        => IF cmd.check
              THEN Outcome = Error("CommandError", "returncode", childStatus)
              ELSE Outcome.kind = "return" /\ Outcome.returncode = childStatus

C4_TimeoutRaises ==
    (Done /\ cmd.check /\ timeout_hit = "running")
        => Outcome = Error("CommandError", "timeout", 0)

\* C5: when the child is still running as the timeout elapses and check=False,
\* run_command returns returncode 124 with the timeout text as error text.
C5_TimeoutReturns124 ==
    (Done /\ ~cmd.check /\ timeout_hit = "running")
        => Outcome = Result(TimeoutReturnCode, <<>>, "timeout")

\* C6: when a timeout fired, the termination was sent to every process of the
\* child's group that was running, and none of them runs when the call ends.
C6_GroupTerminated ==
    (Done /\ timeout_hit # "none")
        => /\ child # "running"
           /\ grandchild # "running"
           /\ alive_at_timeout \subseteq signalled

\* C7: with a timeout supplied, the call never lasts longer than the timeout plus
\* OverheadPolls polls.
C7_BoundedByTimeout ==
    cmd.timeout # NoTimeout => clock <= TimeoutPolls(cmd.timeout) + OverheadPolls

\* C8: an exception raised while spawning is re-raised as the command failure when
\* check=True and turned into returncode 1 with the exception text when
\* check=False; no other exception type leaves run_command.
C8_SpawnExceptionHandled ==
    Done =>
        /\ Outcome.kind = "raise" => Outcome.type = "CommandError"
        /\ spawns = 0 =>
              IF cmd.check
                 THEN Outcome = Error("CommandError", "exception", 0)
                 ELSE Outcome = Result(ExceptionReturnCode, <<>>, "exception")

(* --------------------- claims on run_piped_commands -------------------- *)
\* C9: a chain of two or more commands never gets stuck: as long as the call has
\* not ended, some step of the parent or of a stage can be taken, whatever amount
\* of data a stage writes to its stdout or to its stderr.
C9_NoDeadlock == pc # "done" => ENABLED PipeNext

\* the chain was spawned whole and the final communicate() returned in time
ChainCompleted ==
    /\ Done
    /\ pipeline.n >= 2
    /\ pipeline.failAt = 0
    /\ timeout_hit = "none"

RunCommandOutcome ==
    IF spawns = 0 THEN SubprocessErrorOutcome(cmd.check)
    ELSE IF timeout_hit # "none" THEN TimeoutOutcome(cmd.check)
    ELSE DirectOutcome(cmd.check, childStatus, Payload(emitted))

\* the error() calls run_command makes on that path
RunCommandErrorLogs ==
    IF spawns = 0 \/ timeout_hit # "none" THEN 2
    ELSE IF CheckFails(cmd.check, childStatus) THEN 3
    ELSE 0

\* C11: run_command_with_input ends with the outcome run_command ends with for the
\* same child behaviour and check flag (returncode c, 124 for a timeout, 1 for a
\* spawn failure, or the same error), and logs the failure as often as run_command.
C11_SameContractAsRunCommand ==
    Done => /\ Outcome = RunCommandOutcome
            /\ Len(log) = RunCommandErrorLogs

(* ---------------------- claims on run_command_with_pty ----------------- *)
\* the poll loop was left because idle_count reached the idle threshold
LeftByIdle == pc = "pty_wait" /\ IdleReached(idle_count) /\ timeout_hit = "none"

\* C12: once the idle threshold has elapsed the command counts as finished: after
\* the loop is left for that reason the call does not block on a child that is
\* still running.
C12_IdleBreakDoesNotBlock == LeftByIdle => ~Blocked

\* the call spawned its child on the pseudo-terminal path and run_command_with_pty
\* returned its dict
PtyPathTaken ==
    cmd.preserve_color /\ env.spawnErr = "none" /\ env.ptyErr # "cleanup" /\ spawns > 0

\* C13: every pseudo-terminal invocation that spawned a child has waited for it
\* when it returns, and the returncode it hands back is the child's exit status.
C13_ReapedWithRealStatus ==
    (Done /\ PtyPathTaken) => reaped /\ Outcome.returncode = childStatus

\* C14: whatever the pseudo-terminal path returns (after a normal exit, a timeout,
\* an idle break or an exception of the poll loop), it is a returned result whose
\* stderr text is empty, also when the group has written output.
C14_PtyStderrEmpty ==
    (Done /\ PtyPathTaken) => Outcome.kind = "return" /\ Outcome.text = ""

\* reached: the group wrote, a timeout fired, and the result carries what was
\* read as stdout and nothing as stderr
C14_Witness ==
    /\ Done
    /\ PtyPathTaken
    /\ timeout_hit = "running"
    /\ emitted > 0
    /\ Outcome.stdout # <<>>
    /\ Outcome.text = ""

\* C15: when the child has written its payload and exited (no timeout, no
\* exception), the stdout of the returned result is the payload itself, with
\* preserve_color False and with preserve_color True.
C15_StdoutRoundTrip ==
    (Done /\ child = "exited" /\ timeout_hit = "none" /\ env.ptyErr # "poll"
          /\ Outcome.kind = "return")
        => Outcome.stdout = Payload(emitted)

IsPrefix(s, t) == Len(s) <= Len(t) /\ s = SubSeq(t, 1, Len(s))

\* s without the carriage returns the terminal put in
RECURSIVE WithoutCr(_)
WithoutCr(s) ==
    IF s = <<>> THEN <<>>
    ELSE (IF Head(s) = "CR" THEN <<>> ELSE <<Head(s)>>) \o WithoutCr(Tail(s))

ErrorLogged == \E i \in 1 .. Len(log) : log[i] = "error"

\* the call went down a failure path: spawn failure, timeout, or an exit code other
\* than 0 under check=True
FailurePath ==
    \/ spawns = 0
    \/ timeout_hit # "none"
    \/ cmd.check /\ child = "exited" /\ childStatus # 0

\* C17: in both modes, a call that ends on a failure path has logged an
\* error-level message, and no error leaves run_command without one.
C17_FailureLogged ==
    Done => /\ Outcome.kind = "raise" => ErrorLogged
            /\ FailurePath => ErrorLogged

\* C18: one invocation of run_command spawns the command at most once, the
\* fallback from the pseudo-terminal path to the direct-pipe path included.
C18_SpawnedAtMostOnce == spawns <= 1

(* ------------------- claims on _install_with_homebrew ------------------ *)
\* C19: the worker runs as a daemon thread, the caller never spends more than
\* BrewTimeoutSeconds in the wait whatever the worker does, and once it has left
\* the wait it reports success (the event is set and Docker.app is present) or
\* goes to the manual installation.
C19_WaitBounded ==
    /\ waited <= BrewTimeoutSeconds
    /\ command_thread.state # "unstarted" => command_thread.daemon
    /\ brew_pc = "done" =>
          \/ brew_result = "success" /\ brew.app_present /\ command_finished
          \/ brew_result = "manual"

\* reached: the brew command never ends, the caller gave up after the full
\* timeout and went to the manual installation with the worker still running
C19_Witness ==
    /\ brew_pc = "done"
    /\ ~brew.ends
    /\ command_thread.state = "running"
    /\ waited = BrewTimeoutSeconds
    /\ brew_result = "manual"

(* ---------------------- claims on uninstall_docker.py ------------------ *)
\* the prompt was shown and gave an answer
Answered == Supported(script.system) /\ ~script.input_raises

\* the user typed y or Y
TypedYes == script.typed \in {<<"y">>, <<"Y">>}

\* C20: uninstall_docker is called only after the prompt returned y or Y, and at
\* most once; any other answer ends the script with exit code 0 and no call; after
\* the confirmation the exit code is 0 when uninstall_docker returned and 1 when
\* it raised.
C20_UninstallOnlyAfterConfirmation ==
    /\ uninstall_calls <= 1
    /\ uninstall_calls > 0 => Answered /\ TypedYes
    /\ (script_pc = "exited" /\ Answered /\ ~TypedYes)
          => uninstall_calls = 0 /\ exit_status = 0
    /\ (script_pc = "exited" /\ Answered /\ TypedYes)
          => /\ uninstall_calls = 1
             /\ exit_status = IF script.uninstall = "returns" THEN 0 ELSE 1

\* reached: the user typed Y, uninstall_docker raised DockerUninstallError and the
\* script exited with code 1
C20_Witness ==
    /\ script_pc = "exited"
    /\ script.typed = <<"Y">>
    /\ script.uninstall = "DockerUninstallError"
    /\ uninstall_calls = 1
    /\ exit_status = 1

(* ---------------------- claims on install_docker_full ------------------ *)
\* the first k entries of a sequence
Prefix(s, k) == SubSeq(s, 1, k)

\* the first step that does not return, 7 when all six return
FirstFailing == 
    IF \E k \in 1..6 : install.outcome[k] # "returns"
      THEN CHOOSE k \in 1..6 : /\ install.outcome[k] # "returns"
                               /\ \A j \in 1..(k - 1) : install.outcome[j] = "returns"
      ELSE 7

\* C21: install_docker_full calls its six steps in the fixed source order;
\* it ends either returning True after all six steps returned or raising
\* DockerInstallError; when step k raises (DockerInstallError or any other
\* subclass of Exception) no step after k is called, and the only exception
\* type that leaves the function is DockerInstallError.  Step failures are
\* subclasses of Exception; an interrupt delivered from outside
\* (KeyboardInterrupt, a BaseException) is not a step outcome here.
C21_SixStepsOrDockerInstallError ==
    /\ Len(steps_run) <= 6
    /\ steps_run = Prefix(InstallSteps(install.flavour), Len(steps_run))
    /\ Len(steps_run) <= FirstFailing
    /\ install_result \in {"none", "True", "DockerInstallError"}
    /\ install_pc = "done" => install_result # "none"
    /\ install_result = "True" => Len(steps_run) = 6 /\ FirstFailing = 7
    /\ (install_result = "DockerInstallError" /\ Len(steps_run) > 0)
         => Len(steps_run) = FirstFailing

\* C21 witness: the third step raised an exception that is not a
\* DockerInstallError; the call ended raising DockerInstallError after
\* exactly three step calls
C21_Witness ==
    /\ install_pc = "done"
    /\ install.outcome[3] = "Exception"
    /\ Len(steps_run) = 3
    /\ install_result = "DockerInstallError"

(* --------------------------- claims on get_logger ---------------------- *)
\* C22: the process-wide logger is initialized once: whatever name, level
\* and log_file the calls pass, every get_logger call returns the logger the
\* first call returned, the handlers of that logger are the ones the first
\* call installed, and no other logger received a handler.
C22_InitializedOnce ==
    logger_calls # <<>> =>
      /\ \A i \in 1..Len(logger_calls) :
           logger_calls[i].returned = logger_calls[1].returned
      /\ logger_instance = logger_calls[1].returned
      /\ registry[logger_calls[1].returned].handlers
           = NewHandlers(logger_calls[1].args.log_file)
      /\ \A n \in LoggerNames \ {logger_calls[1].returned} :
           registry[n].handlers = <<>>

\* C22 witness: after the import two more calls were made, one of them with
\* another name, another level and a log file that can be opened
C22_Witness ==
    /\ Len(logger_calls) = 3
    /\ \E i \in 2..3 : logger_calls[i].args =
         [name |-> "other", level |-> "DEBUG", log_file |-> "writable"]

(* ------------------- claims on the idle rule of the poll loop ---------- *)
\* C23: in the pseudo-terminal poll loop idle_count is the number of
\* consecutive polls without data (every non-empty read resets it to 0); the
\* loop is left by the idle rule only after 20 such polls in a row, during
\* which the group wrote nothing; while a writer is left each of these polls
\* is a select that expired after 100 ms, so the silence lasted 2 s: a group
\* that writes within every 2-second window is not cut off by the idle rule.
C23_IdleCountsConsecutiveQuietPolls ==
    /\ pc \in {"pty_loop", "pty_wait"} => idle_count = since_data
    /\ LeftByIdle =>
         /\ since_data = IdlePolls
         /\ quiet >= IdlePolls
         /\ ~StreamsClosed => clock > IdlePolls

\* C23 witness: the loop was left by the idle rule after the group had
\* written and the loop had read its data, with the child still running
C23_Witness ==
    /\ LeftByIdle
    /\ output # <<>>
    /\ child = "running"
    /\ ~cmd.is_status

\* C24: a command of the status-query family (its text contains
\* 'systemctl status') leaves the poll loop by the idle rule after fewer
\* polls without data than the 20 polls (2 s) that hold for other commands.
C24_StatusThresholdShorter ==
    (LeftByIdle /\ cmd.is_status) => since_data < IdlePolls

(* --------------------- claims on uninstall_docker_full ----------------- *)
FatalSteps == {"remove_docker_packages", "remove_docker_data"}

C26_StartAttemptedOnce ==
    /\ start_calls <= 1
    /\ (restart_pc = "done" /\ stop_calls = 1
          /\ restart.stop \in {"returns", "DockerStartError"}) => start_calls = 1

(* --------------- claims on the frame of run_command_with_pty ----------- *)
\* run_command_with_pty was entered and has been left again
PtyCallOver == cmd.preserve_color /\ pc \notin {"start", "pty_loop", "pty_wait"}

\* C27: after every call of run_command_with_pty with a cwd argument,
\* whatever its outcome (return, timeout, exception in the poll loop, failure
\* to open the pseudo-terminal or to spawn the child), the parent's working
\* directory is the one from before the call and both pseudo-terminal file
\* descriptors are closed.
C27_CwdRestoredAndFdsClosed ==
    PtyCallOver => parent_cwd = "old_cwd" /\ open_fds = {}

(* ------------- claims on the worker of _install_with_homebrew ---------- *)
\* C28: the completion signal is set whenever the worker thread has
\* finished, whether the brew command returned or raised, and the caller
\* never spends the full 300 seconds in the wait for a worker that ended
\* before that.
C28_SignalSetWhenWorkerEnds ==
    /\ command_thread.state = "finished" => command_finished
    /\ (brew.ends /\ brew.finishes < BrewTimeoutSeconds) => waited < BrewTimeoutSeconds

(* --------------------- claims on install_docker_engine ----------------- *)
\* C29: in install_docker_engine the confirmation prompt of
\* _install_manually is shown at most once per call, on every path (manual
\* choice, Homebrew choice, Homebrew timeout or failure), and an answer other
\* than 'y' ends the call with DockerInstallError after that single prompt.
C29_PromptShownAtMostOnce ==
    /\ prompts <= 1
    /\ (prompts = 1 /\ ~Confirmed(Lower(engine.answers[1])))
         => engine_pc = "done" /\ engine_result = "DockerInstallError"

(* ------------- claims on the children of run_piped_commands ------------ *)
\* C30: when run_piped_commands has returned or raised (normal completion,
\* non-zero exit, or timeout), no stage it spawned is still running: first,
\* intermediate and final stage have all terminated, and a timeout ends every
\* stage of the pipeline.
C30_NoStageLeftRunning ==
    (Done /\ pipeline.n >= 2) =>
        \A i \in 1 .. pipeline.n : stage[i].state # "running"

=============================================================================
